---- MODULE Spec2Model ----
(***************************************************************************)
(* A model of the cancan authorization engine (src/index.js): the ability  *)
(* registry filled by allow, and the queries can / cannot / authorize with *)
(* their concurrent, possibly asynchronous condition evaluations.          *)
(*                                                                         *)
(* JavaScript values are written as strings: "true", "false", "undefined", *)
(* "1" are primitives, every other string names an object (a class, an     *)
(* instance, a plain object) and two names are equal exactly when the      *)
(* references are.                                                         *)
(***************************************************************************)
EXTENDS Integers, Sequences, FiniteSets, TLC

VARIABLES abilities, instanceOfOption, createError, allowCall, queries

vars == <<abilities, instanceOfOption, createError, allowCall, queries>>

(***************************************************************************)
(* Bounds of the model.                                                    *)
(***************************************************************************)
\* longest registry explored by the query specifications
MaxRules == 2
\* longest registry explored by the declaration specification
MaxDeclared == 5
\* number of queries that may be outstanding at the same time
MaxQueries == 2

(***************************************************************************)
(* The object world of the callers (the classes of the test-suite).        *)
(***************************************************************************)
Classes == {"Model", "User", "Product"}

\* class Model; class User extends Model; class Product extends Model
SuperClasses(c) ==
    IF c \in {"User", "Product"} THEN {c, "Model"} ELSE {c}

\* objects made by new User(attrs) / new Product(attrs)
Instances == {"user", "pubProd", "numProd", "privProd"}

\* plain object literals, which have no get method
PlainObjects == {"plainPub"}

ClassOf(o) == IF o = "user" THEN "User" ELSE "Product"

\* attribute maps are sets of <<key, value>> pairs with unique keys
Lookup(pairs, key) ==
    IF \E p \in pairs : p[1] = key
    THEN (CHOOSE p \in pairs : p[1] = key)[2]
    ELSE "undefined"

\* this.attrs of a Model instance
Attrs(o) ==
    CASE o = "pubProd" -> {<<"published", "true">>, <<"featured", "true">>}
      [] o = "numProd" -> {<<"published", "1">>}
      [] OTHER -> {}

\* own properties read by obj[key]
Props(o) ==
    CASE o = "plainPub" -> {<<"published", "true">>}
      [] o = "optsPass" -> {<<"pass", "true">>}
      [] o = "optsNum" -> {<<"pass", "1">>}
      [] OTHER -> {}

\* typeof obj.get === 'function': Model.prototype.get
HasGet(o) == o \in Instances

\* !!v : the primitives that coerce to false; every object is truthy
Truthy(v) == v \notin {"undefined", "false", "0", "null", "", "NaN"}

Bool(b) == IF b THEN "true" ELSE "false"

\* error values: thrown by the language, by a condition, or made by a factory
NoError == [name |-> "none", message |-> "", args |-> <<>>]
TypeErrorOf(msg) == [name |-> "TypeError", message |-> msg, args |-> <<>>]

(***************************************************************************)
(* Helpers of src/index.js.                                                *)
(***************************************************************************)
getDirect(obj, key) == Lookup(Props(obj), key)

\* get(obj, key): the accessor when there is one, else the property
get(obj, key) ==
    IF HasGet(obj) THEN Lookup(Attrs(obj), key) ELSE Lookup(Props(obj), key)

\* Object.keys(obj).every(key => get(target, key) === obj[key])
isPartiallyEqual(target, obj) ==
    \A p \in obj : get(target, p[1]) = p[2]

\* a condition argument: typeof, is-plain-obj, and what it holds
CondUndefined == [type |-> "undefined", plain |-> FALSE, body |-> "none", map |-> {}]
CondString == [type |-> "string", plain |-> FALSE, body |-> "abc", map |-> {}]
CondNumber == [type |-> "number", plain |-> FALSE, body |-> "42", map |-> {}]
CondArray == [type |-> "object", plain |-> FALSE, body |-> "array", map |-> {}]
CondMap(m) == [type |-> "object", plain |-> TRUE, body |-> "none", map |-> m]
CondFn(name) == [type |-> "function", plain |-> FALSE, body |-> name, map |-> {}]

isObject(condition) == condition.type = "object" /\ condition.plain

\* getConditionFn(condition): the closure (performer, target) => isPartiallyEqual(target, condition)
getConditionFn(condition) ==
    [type |-> "function", plain |-> FALSE, body |-> "isPartiallyEqual", map |-> condition.map]

\* instance instanceof model: a TypeError when model is not callable
defaultInstanceOf(instance, model) ==
    IF model \notin Classes THEN "throw"
    ELSE IF instance \in Instances /\ model \in SuperClasses(ClassOf(instance))
         THEN "true" ELSE "false"

\* model descriptors of a foreign object system: {Instance: User}, {Instance: Product}
Descriptors == {"UserModel", "ProductModel"}

\* model.Instance
InstanceField(model) ==
    CASE model = "UserModel" -> "User"
      [] model = "ProductModel" -> "Product"
      [] OTHER -> "undefined"

\* an instanceOf passed at construction: instance instanceof model.Instance
customInstanceOf(instance, model) ==
    defaultInstanceOf(instance, InstanceField(model))

\* the TypeError of instanceof: the right-hand side is an object that is not
\* callable, or no object at all
NotCallableError == TypeErrorOf("Right-hand side of 'instanceof' is not callable")
NotAnObjectError == TypeErrorOf("Right-hand side of 'instanceof' is not an object")

\* () => new Error('Authorization error')
defaultCreateError(args) ==
    [name |-> "Error", message |-> "Authorization error", args |-> <<>>]

\* a createError passed at construction: an error that records what it was given
customCreateError(args) ==
    [name |-> "AuthError", message |-> "custom", args |-> args]

\* this.createError.apply(null, arguments)
CreateErrorApply(factory, args) ==
    IF factory = "custom" THEN customCreateError(args) ELSE defaultCreateError(args)

\* a value passed for actions or targets: a bare value or an array
JsScalar(x) == [isArray |-> FALSE, val |-> x, arr |-> <<>>]
JsArray(s) == [isArray |-> TRUE, val |-> "", arr |-> s]

arrifyFirstOnly(v) ==
    IF v.isArray
    THEN IF v.arr = <<>> THEN <<>> ELSE <<v.arr[1]>>
    ELSE IF v.val \in {"undefined", "null"} THEN <<>> ELSE <<v.val>>

\* arrify(v): an array as it is, undefined and null as the empty array, any
\* other value as the array of that one value
arrify(v) ==
    IF v.isArray
    THEN v.arr
    ELSE IF v.val \in {"undefined", "null"} THEN <<>> ELSE <<v.val>>

(***************************************************************************)
(* allow(model, actions, targets, condition)                               *)
(***************************************************************************)
Rule(model, action, target, condition) ==
    [model |-> model, action |-> action, target |-> target, condition |-> condition]

\* the guard of the TypeError at the top of allow
AllowInvalid(condition) ==
    /\ condition.type # "undefined"
    /\ condition.type # "function"
    /\ ~isObject(condition)

AllowMessage(condition) ==
    "Expected condition to be object or function, got " \o condition.type

\* arrify(targets).forEach(target => this.abilities.push({...}))
RECURSIVE PushTargets(_, _, _, _, _)
PushTargets(list, model, action, targets, condition) ==
    IF targets = <<>> THEN list
    ELSE PushTargets(Append(list, Rule(model, action, Head(targets), condition)),
                     model, action, Tail(targets), condition)

\* arrify(actions).forEach(action => ...)
RECURSIVE PushActions(_, _, _, _, _)
PushActions(list, model, actions, targets, condition) ==
    IF actions = <<>> THEN list
    ELSE PushActions(PushTargets(list, model, Head(actions), targets, condition),
                     model, Tail(actions), targets, condition)

NoAllow ==
    [called |-> FALSE, threw |-> FALSE, message |-> "", model |-> "",
     actions |-> JsScalar(""), targets |-> JsScalar(""),
     condition |-> CondUndefined, before |-> <<>>]

AllowRecord(model, actions, targets, condition, threw, before) ==
    [called |-> TRUE, threw |-> threw,
     message |-> IF threw THEN AllowMessage(condition) ELSE "",
     model |-> model, actions |-> actions, targets |-> targets,
     condition |-> condition, before |-> before]

allowPartial(model, actions, targets, condition) ==
    LET stored == IF isObject(condition) THEN getConditionFn(condition) ELSE condition
        pushed == PushActions(abilities, model, arrify(actions), arrify(targets), stored)
    IN  /\ abilities' = pushed
        /\ allowCall' = AllowRecord(model, actions, targets, condition,
                                    AllowInvalid(condition), abilities)
        /\ UNCHANGED <<instanceOfOption, createError, queries>>

allow(model, actions, targets, condition) ==
    IF AllowInvalid(condition)
    THEN /\ allowCall' = AllowRecord(model, actions, targets, condition, TRUE, abilities)
         /\ UNCHANGED <<abilities, instanceOfOption, createError, queries>>
    ELSE LET stored == IF isObject(condition) THEN getConditionFn(condition) ELSE condition
             pushed == PushActions(abilities, model, arrify(actions), arrify(targets), stored)
         IN  /\ abilities' = pushed
             /\ allowCall' = AllowRecord(model, actions, targets, condition, FALSE, abilities)
             /\ UNCHANGED <<instanceOfOption, createError, queries>>

(***************************************************************************)
(* can(performer, action, target, options): the synchronous part, run when *)
(* the query is invoked.                                                   *)
(***************************************************************************)
\* arguments[i], undefined past the end
Arg(args, i) == IF i <= Len(args) THEN args[i] ELSE "undefined"

\* this.instanceOf = options.instanceOf || defaultInstanceOf
instanceOf(instance, model) ==
    IF instanceOfOption = "custom"
    THEN customInstanceOf(instance, model)
    ELSE defaultInstanceOf(instance, model)

\* ability.target === 'all' || target === ability.target || this.instanceOf(target, ability.target)
TargetTest(ability, target) ==
    IF ability.target = "all" \/ target = ability.target
    THEN "true"
    ELSE instanceOf(target, ability.target)

\* ability.action === 'manage' || action === ability.action
ActionTest(ability, action) ==
    ability.action = "manage" \/ action = ability.action

\* the error this.instanceOf(x, model) throws when it throws
InstanceOfError(model) ==
    LET rhs == IF instanceOfOption = "custom" THEN InstanceField(model) ELSE model
    IN  IF rhs \in Instances \cup PlainObjects \cup Descriptors
        THEN NotCallableError
        ELSE NotAnObjectError

\* the first element of a set of indices
First(indices) == CHOOSE i \in indices : \A j \in indices : i <= j

\* .filter((ability) => this.instanceOf(performer, ability.model))
ModelFilter(list, performer) ==
    LET throwing == {i \in DOMAIN list : instanceOf(performer, list[i].model) = "throw"}
    IN  [threw |-> throwing # {},
         error |-> IF throwing # {}
                   THEN InstanceOfError(list[First(throwing)].model)
                   ELSE NoError,
         list |-> SelectSeq(list, LAMBDA a : instanceOf(performer, a.model) = "true")]

\* .filter((ability) => ... target ...)
TargetFilter(list, target) ==
    LET throwing == {i \in DOMAIN list : TargetTest(list[i], target) = "throw"}
    IN  [threw |-> throwing # {},
         error |-> IF throwing # {}
                   THEN InstanceOfError(list[First(throwing)].target)
                   ELSE NoError,
         list |-> SelectSeq(list, LAMBDA a : TargetTest(a, target) = "true")]

\* .filter((ability) => ... action ...)
ActionFilter(list, action) ==
    SelectSeq(list, LAMBDA a : ActionTest(a, action))

\* the three chained filters; a throwing filter ends the chain
FilterAbilities(list, performer, action, target) ==
    LET byModel == ModelFilter(list, performer)
        byTarget == TargetFilter(byModel.list, target)
    IN  IF byModel.threw
        THEN [threw |-> TRUE, error |-> byModel.error, list |-> <<>>]
        ELSE IF byTarget.threw
        THEN [threw |-> TRUE, error |-> byTarget.error, list |-> <<>>]
        ELSE [threw |-> FALSE, error |-> NoError,
              list |-> ActionFilter(byTarget.list, action)]

\* options || {}
OptionsOrEmpty(options) == IF Truthy(options) THEN options ELSE "emptyOptions"

\* The condition predicates the callers declare: what one call returns or
\* throws, and whether it answers through a promise that settles later.
ConditionResult(condition, performer, target, options) ==
    CASE condition.body = "isPartiallyEqual" ->
            [tag |-> "value", v |-> Bool(isPartiallyEqual(target, condition.map)),
             error |-> NoError, async |-> FALSE]
      [] condition.body = "getPublished" ->
            IF HasGet(target)
            THEN [tag |-> "value", v |-> Lookup(Attrs(target), "published"),
                  error |-> NoError, async |-> FALSE]
            ELSE [tag |-> "throw", v |-> "",
                  error |-> TypeErrorOf("product.get is not a function"), async |-> FALSE]
      [] condition.body = "asyncFalse" ->
            [tag |-> "value", v |-> "false", error |-> NoError, async |-> TRUE]
      [] condition.body = "asyncPass" ->
            [tag |-> "value", v |-> Lookup(Props(options), "pass"),
             error |-> NoError, async |-> TRUE]
      [] condition.body = "asyncThrow" ->
            [tag |-> "throw", v |-> "",
             error |-> [name |-> "Error", message |-> "boom", args |-> <<>>],
             async |-> TRUE]

\* async (ability) => { if (ability.condition) return await ability.condition(...); return true }
InvokeCondition(ability, performer, target, options) ==
    IF ability.condition.type = "undefined"
    THEN [rule |-> ability, tag |-> "value", v |-> "true", error |-> NoError, settled |-> TRUE]
    ELSE LET r == ConditionResult(ability.condition, performer, target, OptionsOrEmpty(options))
         IN  [rule |-> ability, tag |-> r.tag, v |-> r.v, error |-> r.error,
              settled |-> ~r.async]

\* array.map(fn): every condition is invoked, in registry order, at the call
mapAsync(list, performer, target, options) ==
    [i \in DOMAIN list |-> InvokeCondition(list[i], performer, target, options)]

\* the first promise already rejected when Promise.all subscribes
FirstThrown(evals) ==
    IF \E i \in DOMAIN evals : evals[i].settled /\ evals[i].tag = "throw"
    THEN LET i == CHOOSE k \in DOMAIN evals :
                    /\ evals[k].settled /\ evals[k].tag = "throw"
                    /\ \A j \in 1..(k - 1) : ~(evals[j].settled /\ evals[j].tag = "throw")
         IN  evals[i].error
    ELSE NoError

NoResult == [kind |-> "none", value |-> "", error |-> NoError]
Resolved(v) == [kind |-> "resolved", value |-> v, error |-> NoError]
Rejected(e) == [kind |-> "rejected", value |-> "", error |-> e]

IdleQuery ==
    [status |-> "idle", op |-> "none", args |-> <<>>, snapshot |-> <<>>,
     evals |-> <<>>, err |-> NoError, kept |-> <<>>, inner |-> NoResult,
     result |-> NoResult, factoryCalls |-> <<>>]

\* the state of a query right after its call returned a pending promise
StartQuery(op, args) ==
    LET performer == Arg(args, 1)
        action == Arg(args, 2)
        target == Arg(args, 3)
        options == Arg(args, 4)
        filtered == FilterAbilities(abilities, performer, action, target)
        evals == mapAsync(filtered.list, performer, target, options)
    IN  [status |-> "pending", op |-> op, args |-> args, snapshot |-> abilities,
         evals |-> evals,
         err |-> IF filtered.threw THEN filtered.error ELSE FirstThrown(evals),
         kept |-> <<>>, inner |-> NoResult,
         result |-> NoResult, factoryCalls |-> <<>>]

Invoke(q, op, args) ==
    /\ queries[q].status = "idle"
    /\ queries' = [queries EXCEPT ![q] = StartQuery(op, args)]
    /\ UNCHANGED <<abilities, instanceOfOption, createError, allowCall>>

can(q, args) == Invoke(q, "can", args)

\* this.can.apply(this, arguments)
cannot(q, args) == Invoke(q, "cannot", args)

\* this.cannot.apply(this, arguments)
authorize(q, args) == Invoke(q, "authorize", args)

(***************************************************************************)
(* The asynchronous part: conditions settle in any order, and the query    *)
(* continues when Promise.all has an answer.  Each await of the code ends  *)
(* a turn: filterAsync, can, cannot and authorize continue one after the    *)
(* other, in turns of their own, and other callbacks run in between.       *)
(***************************************************************************)
\* one pending condition resolves or rejects; nothing cancels a condition, so
\* it settles also after Promise.all has answered and the query has gone on,
\* and only a Promise.all that has not answered yet takes the rejection
Settle(q, i) ==
    /\ queries[q].status # "idle"
    /\ i \in DOMAIN queries[q].evals
    /\ ~queries[q].evals[i].settled
    /\ queries' = [queries EXCEPT
          ![q].evals[i].settled = TRUE,
          ![q].err = IF /\ queries[q].status = "pending"
                        /\ queries[q].err = NoError
                        /\ queries[q].evals[i].tag = "throw"
                     THEN queries[q].evals[i].error
                     ELSE queries[q].err]
    /\ UNCHANGED <<abilities, instanceOfOption, createError, allowCall>>

AllSettled(qr) == \A i \in DOMAIN qr.evals : qr.evals[i].settled

PromiseAllReadyEager(qr) == TRUE

\* Promise.all answers on the first rejection, or when every promise resolved
PromiseAllReady(qr) == qr.err # NoError \/ AllSettled(qr)

filteredAbilitiesLive(qr) ==
    LET now == StartQuery(qr.op, qr.args).evals
    IN  [i \in DOMAIN now |-> [now[i] EXCEPT !.settled = TRUE]]

\* the local filteredAbilities of the invocation, with what each condition gave
filteredAbilities(qr) == qr.evals

\* mappedArray.filter((v, i) => !!mappedArray[i])
filterAsync(evals) ==
    SelectSeq(evals, LAMBDA e : e.settled /\ e.tag = "value" /\ Truthy(e.v))

\* mapAsync(array, fn).then((mappedArray) => mappedArray.filter(...)): the
\* then-callback of filterAsync runs with the answer of Promise.all
filterAsyncResume(q) ==
    LET qr == queries[q]
    IN  /\ qr.status = "pending"
        /\ PromiseAllReady(qr)
        /\ queries' = [queries EXCEPT
              ![q].status = "filtered",
              ![q].kept = IF qr.err # NoError
                          THEN <<>>
                          ELSE filterAsync(filteredAbilities(qr))]
        /\ UNCHANGED <<abilities, instanceOfOption, createError, allowCall>>

canResultSwallow(qr) == Resolved(Bool(Len(qr.kept) > 0))

\* filteredAbilities = await filterAsync(...); return filteredAbilities.length > 0
canResult(qr) ==
    IF qr.err # NoError
    THEN Rejected(qr.err)
    ELSE Resolved(Bool(Len(qr.kept) > 0))

\* can resumes with the answer of filterAsync and settles its promise
canResume(q) ==
    LET qr == queries[q]
    IN  /\ qr.status = "filtered"
        /\ queries' = [queries EXCEPT ![q] =
              IF qr.op = "can"
              THEN [qr EXCEPT !.status = "done", !.result = canResult(qr)]
              ELSE [qr EXCEPT !.status = "canSettled", !.inner = canResult(qr)]]
        /\ UNCHANGED <<abilities, instanceOfOption, createError, allowCall>>

cannotResultSame(r) == r

\* !(await this.can.apply(this, arguments))
cannotResult(r) ==
    IF r.kind = "rejected" THEN r ELSE Resolved(Bool(~Truthy(r.value)))

\* the calls of the error factory made by authorize
authorizeCalls(r, args) ==
    IF r.kind = "resolved" /\ Truthy(r.value) THEN <<args>> ELSE <<>>

authorizeResultNoArgs(r, factory, args) ==
    IF r.kind = "rejected" THEN r
    ELSE IF Truthy(r.value) THEN Rejected(CreateErrorApply(factory, <<>>))
    ELSE Resolved("undefined")

\* if (await this.cannot.apply(this, arguments)) throw this.createError.apply(null, arguments)
authorizeResult(r, factory, args) ==
    IF r.kind = "rejected" THEN r
    ELSE IF Truthy(r.value) THEN Rejected(CreateErrorApply(factory, args))
    ELSE Resolved("undefined")

\* cannot resumes with the answer of can and settles its promise
cannotResume(q) ==
    LET qr == queries[q]
    IN  /\ qr.status = "canSettled"
        /\ queries' = [queries EXCEPT ![q] =
              IF qr.op = "cannot"
              THEN [qr EXCEPT !.status = "done", !.result = cannotResult(qr.inner)]
              ELSE [qr EXCEPT !.status = "cannotSettled",
                              !.inner = cannotResult(qr.inner)]]
        /\ UNCHANGED <<abilities, instanceOfOption, createError, allowCall>>

\* authorize resumes with the answer of cannot, calls the error factory on
\* denial and settles its promise
authorizeResume(q) ==
    LET qr == queries[q]
    IN  /\ qr.status = "cannotSettled"
        /\ queries' = [queries EXCEPT
              ![q].status = "done",
              ![q].result = authorizeResult(qr.inner, createError, qr.args),
              ![q].factoryCalls = authorizeCalls(qr.inner, qr.args)]
        /\ UNCHANGED <<abilities, instanceOfOption, createError, allowCall>>

\* the caller has taken the outcome of a settled query and drops it
Forget(q) ==
    /\ queries[q].status = "done"
    /\ queries' = [queries EXCEPT ![q] = IdleQuery]
    /\ UNCHANGED <<abilities, instanceOfOption, createError, allowCall>>

(***************************************************************************)
(* Specifications.                                                         *)
(***************************************************************************)
Slots == 1..MaxQueries

Init ==
    /\ abilities = <<>>
    /\ instanceOfOption \in {"default", "custom"}
    /\ createError \in {"default", "custom"}
    /\ allowCall = NoAllow
    /\ queries = [q \in Slots |-> IdleQuery]

\* an engine constructed without an instanceOf option
InitDefault == Init /\ instanceOfOption = "default"

\* an engine constructed without options: new CanCan()
InitNoOptions == InitDefault /\ createError = "default"

\* Declarations: every shape of actions, targets and condition.
DeclActions ==
    {JsScalar("read"), JsScalar("undefined"), JsArray(<<"read", "create">>),
     JsArray(<<"read", "read">>)}
DeclTargets ==
    {JsScalar("all"), JsScalar("null"), JsArray(<<"Product", "all">>)}
DeclConditions ==
    {CondUndefined, CondString, CondNumber, CondArray, CondMap({<<"published", "true">>})}

Declare ==
    \E actions \in DeclActions, targets \in DeclTargets, condition \in DeclConditions :
        /\ allow("User", actions, targets, condition)
        /\ Len(abilities') <= MaxDeclared

NextDeclare == Declare

SpecDeclare == InitDefault /\ [][NextDeclare]_vars

\* Queries, one at a time, against every small registry of matching rules.
MatchActions == {"read", "manage"}
MatchTargets == {"all", "Product", "pubProd"}
MatchConditions == {CondUndefined, CondFn("getPublished")}
QueryPerformers == {"user", "pubProd"}
QueryActions == {"read", "create"}
QueryTargets == {"pubProd", "numProd", "privProd", "Product"}
QueryArgs ==
    {<<p, a, t>> : p \in QueryPerformers, a \in QueryActions, t \in QueryTargets}

DeclareRule ==
    \E action \in MatchActions, target \in MatchTargets, condition \in MatchConditions :
        /\ allow("User", JsScalar(action), JsScalar(target), condition)
        /\ Len(abilities') <= MaxRules

CallCan == \E args \in QueryArgs : can(1, args)
CallCannot == \E args \in QueryArgs : cannot(1, args)
CallAuthorize == \E args \in QueryArgs : authorize(1, args)
ResumeFilterAsync == filterAsyncResume(1)
ResumeCan == canResume(1)
ResumeCannot == cannotResume(1)
ResumeAuthorize == authorizeResume(1)
Drop == Forget(1)

Next ==
    \/ DeclareRule \/ CallCan \/ CallCannot \/ CallAuthorize
    \/ ResumeFilterAsync \/ ResumeCan \/ ResumeCannot \/ ResumeAuthorize \/ Drop

Spec == InitDefault /\ [][Next]_vars

\* Attribute-map conditions against every kind of target.
CondMaps ==
    {{<<"published", "true">>},
     {<<"published", "true">>, <<"featured", "true">>},
     {}}
CondTargets == {"pubProd", "numProd", "privProd", "plainPub", "Product"}
CondArgs ==
    {<<p, "read", t>> : p \in QueryPerformers, t \in CondTargets}
        \cup {<<p, "read", t, o>> : p \in QueryPerformers, t \in CondTargets,
                                     o \in {"optsPass"}}

DeclareCond ==
    \E m \in CondMaps :
        /\ allow("Model", JsScalar("read"), JsScalar("all"), CondMap(m))
        /\ Len(abilities') <= MaxRules

AskCan == \E args \in CondArgs : can(1, args)

NextCond == DeclareCond \/ AskCan \/ ResumeFilterAsync \/ ResumeCan \/ Drop

SpecCond == InitDefault /\ [][NextCond]_vars

\* One query at a time whose conditions answer through promises that settle
\* later, in any order, some of them failing.
SettleConditions ==
    {CondUndefined, CondFn("asyncFalse"), CondFn("asyncPass"), CondFn("asyncThrow"),
     CondFn("getPublished")}
SettleArgs ==
    {<<"user", a, t>> : a \in QueryActions, t \in {"pubProd", "Product"}}
        \cup {<<"user", "read", "pubProd", "optsPass">>}

\* the model and target descriptors the configured instanceOf understands
SettleModels == IF instanceOfOption = "custom" THEN {"UserModel"} ELSE {"User"}
SettleTargets ==
    IF instanceOfOption = "custom" THEN {"ProductModel"} ELSE {"all"}

DeclareSettle ==
    \E model \in SettleModels, action \in {"read", "manage"}, target \in SettleTargets,
       condition \in SettleConditions :
        /\ allow(model, JsScalar(action), JsScalar(target), condition)
        /\ Len(abilities') <= MaxRules

AwaitCan == \E args \in SettleArgs : can(1, args)
AwaitCannot == \E args \in SettleArgs : cannot(1, args)
AwaitAuthorize == \E args \in SettleArgs : authorize(1, args)
SettleAny == \E i \in 1..MaxRules : Settle(1, i)

NextSettle ==
    \/ DeclareSettle \/ AwaitCan \/ AwaitCannot \/ AwaitAuthorize
    \/ SettleAny \/ ResumeFilterAsync \/ ResumeCan \/ ResumeCannot \/ ResumeAuthorize
    \/ Drop

SpecSettle == Init /\ [][NextSettle]_vars

\* Several outstanding queries whose conditions settle later, with
\* declarations made in between.
AsyncConditions == {CondUndefined, CondFn("asyncFalse")}
AsyncArgs == {<<"user", "read", "pubProd">>}

\* the caller takes a settled outcome in the same turn in which it is delivered
NoneDone == \A q \in Slots : queries[q].status # "done"

DeclareAsync ==
    \E condition \in AsyncConditions :
        /\ NoneDone
        /\ allow("User", JsScalar("read"), JsScalar("all"), condition)
        /\ Len(abilities') <= MaxRules

StartCan == \E q \in Slots, args \in AsyncArgs : NoneDone /\ can(q, args)
StartCannot == \E q \in Slots, args \in AsyncArgs : NoneDone /\ cannot(q, args)
StartAuthorize == \E q \in Slots, args \in AsyncArgs : NoneDone /\ authorize(q, args)
SettleOne == \E q \in Slots, i \in 1..MaxRules : NoneDone /\ Settle(q, i)
ContinueFilterAsync == \E q \in Slots : NoneDone /\ filterAsyncResume(q)
ContinueCan == \E q \in Slots : NoneDone /\ canResume(q)
ContinueCannot == \E q \in Slots : NoneDone /\ cannotResume(q)
ContinueAuthorize == \E q \in Slots : NoneDone /\ authorizeResume(q)
Release == \E q \in Slots : Forget(q)

NextAsync ==
    \/ DeclareAsync \/ StartCan \/ StartCannot \/ StartAuthorize
    \/ SettleOne \/ ContinueFilterAsync \/ ContinueCan \/ ContinueCannot
    \/ ContinueAuthorize \/ Release

SpecAsync == InitNoOptions /\ [][NextAsync]_vars

(***************************************************************************)
(* The vocabulary of the properties, stated over the registry as a         *)
(* collection of rules and independent of the order of evaluation.         *)
(***************************************************************************)
Performer(qr) == Arg(qr.args, 1)
Action(qr) == Arg(qr.args, 2)
Target(qr) == Arg(qr.args, 3)
Options(qr) == Arg(qr.args, 4)

\* the class a model or target descriptor stands for under the configured
\* type-membership test
ClassDenoted(m) == IF instanceOfOption = "custom" THEN InstanceField(m) ELSE m

\* x is an instance of the class m denotes or of a class derived from it
TypeMember(x, m) ==
    /\ x \in Instances
    /\ ClassDenoted(m) \in Classes
    /\ ClassDenoted(m) \in SuperClasses(ClassOf(x))

\* the rule survives the model, target and action filters
RuleApplies(r, p, a, t) ==
    /\ TypeMember(p, r.model)
    /\ r.target = "all" \/ t = r.target \/ TypeMember(t, r.target)
    /\ r.action = "manage" \/ a = r.action

HasCondition(r) == r.condition.type # "undefined"

\* what the rule's condition gives for the query; omitted options are an empty map
CondValue(r, p, t, o) ==
    ConditionResult(r.condition, p, t, IF o = "undefined" THEN "emptyOptions" ELSE o)

\* the type-membership test is applied to something that denotes no class
MembershipThrows(reg, p, t) ==
    \/ \E i \in DOMAIN reg : ClassDenoted(reg[i].model) \notin Classes
    \/ \E i \in DOMAIN reg :
          /\ TypeMember(p, reg[i].model)
          /\ reg[i].target # "all" /\ t # reg[i].target
          /\ ClassDenoted(reg[i].target) \notin Classes

Applicable(reg, p, a, t) == {i \in DOMAIN reg : RuleApplies(reg[i], p, a, t)}

Failing(reg, p, a, t, o) ==
    {i \in Applicable(reg, p, a, t) :
        HasCondition(reg[i]) /\ CondValue(reg[i], p, t, o).tag = "throw"}

Granting(reg, p, a, t, o) ==
    {i \in Applicable(reg, p, a, t) :
        \/ ~HasCondition(reg[i])
        \/ /\ CondValue(reg[i], p, t, o).tag = "value"
           /\ Truthy(CondValue(reg[i], p, t, o).v)}

\* the decision of can on a registry: resolved with a boolean, or rejected
\* with one of the listed errors
Decision(reg, args) ==
    LET p == Arg(args, 1)
        a == Arg(args, 2)
        t == Arg(args, 3)
        o == Arg(args, 4)
    IN  IF MembershipThrows(reg, p, t)
        THEN [kind |-> "rejected", value |-> "", errors |-> {NotCallableError, NotAnObjectError}]
        ELSE IF Failing(reg, p, a, t, o) # {}
        THEN [kind |-> "rejected", value |-> "",
              errors |-> {CondValue(reg[i], p, t, o).error : i \in Failing(reg, p, a, t, o)}]
        ELSE [kind |-> "resolved", value |-> Bool(Granting(reg, p, a, t, o) # {}),
              errors |-> {}]

\* the error the configured factory returns for an argument list
FactoryError(args) ==
    IF createError = "custom" THEN customCreateError(args) ELSE defaultCreateError(args)

\* a settled query of kind op agrees with the decision d of can
Agrees(qr, d) ==
    IF d.kind = "rejected"
    THEN qr.result.kind = "rejected" /\ qr.result.error \in d.errors
    ELSE CASE qr.op = "can" -> qr.result = Resolved(d.value)
           [] qr.op = "cannot" -> qr.result = Resolved(Bool(d.value # "true"))
           [] OTHER -> qr.result = IF d.value = "true"
                                   THEN Resolved("undefined")
                                   ELSE Rejected(FactoryError(qr.args))

Done(q) == queries[q].status = "done"

(***************************************************************************)
(* C1: for every registry built by allow calls and every query whose       *)
(* conditions all settle without failing, can resolves true if and only if *)
(* some rule passes the model, target and action tests and has no          *)
(* condition or a condition that resolves to true; otherwise it resolves   *)
(* false.                                                                  *)
(***************************************************************************)
RuleGrantsExactly(r, p, a, t, o) ==
    /\ RuleApplies(r, p, a, t)
    /\ \/ ~HasCondition(r)
       \/ CondValue(r, p, t, o).tag = "value" /\ CondValue(r, p, t, o).v = "true"

NoConditionFails(qr) ==
    \A i \in DOMAIN qr.snapshot :
        (RuleApplies(qr.snapshot[i], Performer(qr), Action(qr), Target(qr))
            /\ HasCondition(qr.snapshot[i]))
        => CondValue(qr.snapshot[i], Performer(qr), Target(qr), Options(qr)).tag = "value"

CanIffSomeRuleGrants ==
    \A q \in Slots :
        (Done(q) /\ queries[q].op = "can" /\ NoConditionFails(queries[q]))
        => queries[q].result =
              Resolved(Bool(\E i \in DOMAIN queries[q].snapshot :
                  RuleGrantsExactly(queries[q].snapshot[i], Performer(queries[q]),
                      Action(queries[q]), Target(queries[q]), Options(queries[q]))))

\* What does hold of can: whenever it resolves, it resolves true exactly when
\* some applicable rule has no condition or a condition with a truthy result.
CanResolvesByTruthyGrant ==
    \A q \in Slots :
        (Done(q) /\ queries[q].op = "can" /\ queries[q].result.kind = "resolved")
        => queries[q].result.value =
              Bool(Granting(queries[q].snapshot, Performer(queries[q]),
                   Action(queries[q]), Target(queries[q]), Options(queries[q])) # {})

(***************************************************************************)
(* C9: with the default type-membership test, a rule whose target is one   *)
(* specific object passes the target filter exactly for queries on that    *)
(* same object: can resolves true for it, and for any other target the     *)
(* rule is filtered out and can resolves false when no other rule applies. *)
(***************************************************************************)
IsObjectTargetRule(r) == r.target \in Instances \cup PlainObjects

InstanceTargetMatchesOnlyItself ==
    \A q \in Slots :
        (Done(q) /\ queries[q].op = "can" /\ instanceOfOption = "default") =>
            \A i \in DOMAIN queries[q].snapshot :
                LET qr == queries[q]
                    r == qr.snapshot[i]
                IN  (/\ IsObjectTargetRule(r)
                     /\ ~HasCondition(r)
                     /\ TypeMember(Performer(qr), r.model)
                     /\ r.action = "manage" \/ Action(qr) = r.action)
                    => /\ Target(qr) = r.target => qr.result = Resolved("true")
                       /\ (/\ Target(qr) # r.target
                           /\ Applicable(qr.snapshot, Performer(qr), Action(qr),
                                         Target(qr)) = {})
                          => qr.result = Resolved("false")

(***************************************************************************)
(* C4: a successful allow call with N actions and M targets (a bare value  *)
(* counting as one, duplicates kept) appends exactly N x M rules to the    *)
(* end of the registry, one per (action, target) pair, each with the same  *)
(* model and the same condition; the earlier rules keep content and place. *)
(***************************************************************************)
\* every bare value is a sequence of one element
OneElementEach(v) == IF v.isArray THEN v.arr ELSE <<v.val>>

\* a bare value is a sequence of one element, except undefined and null,
\* which are the empty sequence
Normalized(v) ==
    IF v.isArray
    THEN v.arr
    ELSE IF v.val \in {"undefined", "null"} THEN <<>> ELSE <<v.val>>

\* the condition every rule of the call carries: the function given, or the
\* one predicate made from the attribute map given
CarriedCondition(c) ==
    IF c.type = "object" /\ c.plain
    THEN [type |-> "function", plain |-> FALSE, body |-> "isPartiallyEqual", map |-> c.map]
    ELSE c

\* the registry is the one before the call followed by the product of acts
\* and tgts, action by action
AppendsProduct(acts, tgts) ==
    LET n == Len(acts)
        m == Len(tgts)
        base == Len(allowCall.before)
    IN  /\ Len(abilities) = base + n * m
        /\ \A k \in 1..base : k <= Len(abilities) /\ abilities[k] = allowCall.before[k]
        /\ \A i \in 1..n : \A j \in 1..m :
              /\ base + (i - 1) * m + j <= Len(abilities)
              /\ abilities[base + (i - 1) * m + j] =
                    [model |-> allowCall.model, action |-> acts[i],
                     target |-> tgts[j],
                     condition |-> CarriedCondition(allowCall.condition)]

AllowAppendsScalarProduct ==
    (allowCall.called /\ ~allowCall.threw) =>
        AppendsProduct(OneElementEach(allowCall.actions),
                       OneElementEach(allowCall.targets))

\* C4 as the code has it: an undefined or null actions or targets value
\* counts as the empty sequence, so that the call appends nothing.
AllowAppendsProduct ==
    (allowCall.called /\ ~allowCall.threw) =>
        AppendsProduct(Normalized(allowCall.actions), Normalized(allowCall.targets))

AllowAppendsProductWitness ==
    /\ allowCall.called /\ ~allowCall.threw
    /\ allowCall.before # <<>>
    /\ allowCall.actions = JsArray(<<"read", "read">>)
    /\ Len(Normalized(allowCall.targets)) = 2
    /\ allowCall.condition.type = "object"
    /\ Len(abilities) = Len(allowCall.before) + 4

(***************************************************************************)
(* C5: allow with a condition that is present but neither a function nor a *)
(* plain attribute map fails at the call and leaves the registry exactly   *)
(* as it was, for any number of actions and targets; allow with an         *)
(* undefined condition never fails.                                        *)
(***************************************************************************)
InvalidConditionLeavesRegistry ==
    allowCall.called =>
        LET c == allowCall.condition
            invalid == /\ c.type \notin {"undefined", "function"}
                       /\ ~(c.type = "object" /\ c.plain)
        IN  /\ allowCall.threw <=> invalid
            /\ allowCall.threw => abilities = allowCall.before
            /\ c.type = "undefined" => ~allowCall.threw

InvalidConditionWitness ==
    /\ allowCall.called /\ allowCall.threw
    /\ allowCall.condition.type = "string"
    /\ Len(Normalized(allowCall.actions)) * Len(Normalized(allowCall.targets)) = 4
    /\ allowCall.before # <<>>
    /\ abilities = allowCall.before

(***************************************************************************)
(* C8: a rule declared with an attribute map passes its condition for a    *)
(* target T exactly when, for every key of the map, T's attribute (read    *)
(* through T's get accessor when T has one, by property lookup otherwise)  *)
(* equals the declared value, whatever the performer and the options.      *)
(***************************************************************************)
ReadAttr(t, key) ==
    IF t \in Instances THEN Lookup(Attrs(t), key) ELSE Lookup(Props(t), key)

MapMatches(map, t) == \A kv \in map : ReadAttr(t, kv[1]) = kv[2]

AttributeMapCondition ==
    \A q \in Slots :
        /\ \A i \in DOMAIN queries[q].evals :
              LET e == queries[q].evals[i]
              IN  e.rule.condition.body = "isPartiallyEqual"
                  => /\ e.tag = "value"
                     /\ e.v = Bool(MapMatches(e.rule.condition.map, Target(queries[q])))
        /\ (Done(q) /\ \A i \in DOMAIN queries[q].snapshot :
                          /\ queries[q].snapshot[i].condition.body = "isPartiallyEqual"
                          /\ RuleApplies(queries[q].snapshot[i], Performer(queries[q]),
                                         Action(queries[q]), Target(queries[q])))
           => queries[q].result =
                 Resolved(Bool(\E i \in DOMAIN queries[q].snapshot :
                     MapMatches(queries[q].snapshot[i].condition.map, Target(queries[q]))))

AttributeMapWitness ==
    \E q \in Slots :
        /\ Done(q)
        /\ queries[q].args = <<"pubProd", "read", "plainPub", "optsPass">>
        /\ Len(queries[q].evals) = 2
        /\ queries[q].evals[1].rule.condition.map = {<<"published", "true">>}
        /\ queries[q].evals[1].v = "true"
        /\ Cardinality(queries[q].evals[2].rule.condition.map) = 2
        /\ queries[q].evals[2].v = "false"
        /\ queries[q].result = Resolved("true")

(***************************************************************************)
(* C6: authorize resolves with no value when can with the same arguments   *)
(* would resolve true and rejects when can would resolve false; the        *)
(* rejected value is the value the configured error factory returns, the   *)
(* factory being called once with exactly the arguments of authorize, and  *)
(* not at all when access is granted.                                      *)
(***************************************************************************)
AuthorizeFollowsCan ==
    \A q \in Slots :
        (Done(q) /\ queries[q].op = "authorize") =>
            LET qr == queries[q]
                d == Decision(qr.snapshot, qr.args)
            IN  /\ (d.kind = "resolved" /\ d.value = "true")
                   => qr.result = Resolved("undefined") /\ qr.factoryCalls = <<>>
                /\ (d.kind = "resolved" /\ d.value = "false")
                   => /\ qr.result = Rejected(FactoryError(qr.args))
                      /\ qr.factoryCalls = <<qr.args>>

AuthorizeDeniedWitness ==
    \E q \in Slots :
        /\ Done(q) /\ queries[q].op = "authorize"
        /\ createError = "custom"
        /\ queries[q].snapshot # <<>>
        /\ queries[q].result.kind = "rejected"
        /\ queries[q].result.error.name = "AuthError"
        /\ queries[q].result.error.args = queries[q].args
        /\ queries[q].factoryCalls = <<queries[q].args>>

(***************************************************************************)
(* C7: cannot resolves to the boolean complement of what can resolves to   *)
(* with the same arguments, also when the conditions are asynchronous, and *)
(* it makes one evaluation with the arguments unchanged.                   *)
(***************************************************************************)
CannotIsComplementOfCan ==
    \A q \in Slots :
        (Done(q) /\ queries[q].op = "cannot") =>
            LET qr == queries[q]
                d == Decision(qr.snapshot, qr.args)
                app == Applicable(qr.snapshot, Performer(qr), Action(qr), Target(qr))
            IN  /\ d.kind = "resolved" => qr.result = Resolved(Bool(d.value = "false"))
                /\ d.kind = "rejected" => qr.result.kind = "rejected"
                /\ Len(qr.evals) = Cardinality(app)
                /\ \A i \in DOMAIN qr.evals :
                      \E k \in app : qr.evals[i].rule = qr.snapshot[k]

CannotComplementWitness ==
    \E q \in Slots :
        /\ Done(q) /\ queries[q].op = "cannot"
        /\ \E i \in DOMAIN queries[q].evals :
              /\ queries[q].evals[i].rule.condition.body = "asyncPass"
              /\ queries[q].evals[i].v = "true"
        /\ queries[q].result = Resolved("false")

(***************************************************************************)
(* C2: when a condition invoked by a query throws or its promise rejects,  *)
(* can, cannot and authorize end rejected with such a failure, and never   *)
(* resolve, also when another matching rule has no condition or a          *)
(* condition that resolves true.                                           *)
(***************************************************************************)
ConditionFailurePropagates ==
    \A q \in Slots :
        (Done(q) /\ \E i \in DOMAIN queries[q].evals : queries[q].evals[i].tag = "throw")
        => /\ queries[q].result.kind = "rejected"
           /\ queries[q].result.error \in
                 {queries[q].evals[i].error :
                     i \in {k \in DOMAIN queries[q].evals : queries[q].evals[k].tag = "throw"}}

ConditionFailureWitness ==
    \E q \in Slots :
        /\ Done(q) /\ queries[q].op = "authorize"
        /\ Len(queries[q].evals) = 2
        /\ ~HasCondition(queries[q].evals[1].rule)
        /\ queries[q].evals[2].tag = "throw"
        /\ queries[q].result.kind = "rejected"
        /\ queries[q].result.error.message = "boom"

(***************************************************************************)
(* C3: within one query the surviving rules' condition evaluations may     *)
(* complete in any order, and the query produces its result only after     *)
(* every one of them has settled: no result is observable while one is     *)
(* pending.                                                                *)
(***************************************************************************)
NoResultWhileConditionPending ==
    \A q \in Slots : Done(q) => AllSettled(queries[q])

\* C3 as the code has it: a query resolves only after every condition
\* evaluation has settled, with a value that reflects the settled values; a
\* query rejects once one evaluation has failed, others possibly pending.
SettledValue(qr) ==
    Bool(\E i \in DOMAIN qr.evals :
            /\ qr.evals[i].settled
            /\ qr.evals[i].tag = "value"
            /\ Truthy(qr.evals[i].v))

ResolvesOnlyAfterAllSettled ==
    \A q \in Slots :
        Done(q) =>
            LET qr == queries[q]
            IN  /\ qr.result.kind = "resolved"
                   => /\ AllSettled(qr)
                      /\ \A i \in DOMAIN qr.evals : qr.evals[i].tag = "value"
                      /\ qr.op = "can" => qr.result.value = SettledValue(qr)
                      /\ qr.op = "cannot" => qr.result.value # SettledValue(qr)
                      /\ qr.op = "authorize" => SettledValue(qr) = "true"
                /\ qr.result.kind = "rejected"
                   => \/ AllSettled(qr)
                      \/ \E i \in DOMAIN qr.evals :
                            /\ qr.evals[i].settled
                            /\ qr.evals[i].tag = "throw"
                            /\ qr.evals[i].error = qr.result.error

ResolvesAfterAllSettledWitness ==
    \E q \in Slots :
        /\ Done(q) /\ queries[q].op = "can"
        /\ Len(queries[q].evals) = 2
        /\ queries[q].evals[1].rule.condition.body = "asyncFalse"
        /\ queries[q].evals[2].rule.condition.body = "asyncPass"
        /\ queries[q].evals[2].v = "true"
        /\ queries[q].result = Resolved("true")

(***************************************************************************)
(* C10: queries are isolated: no query adds, removes or changes a rule,    *)
(* and for any interleaving of outstanding queries' condition completions  *)
(* with each other and with allow calls, each query's result is the        *)
(* decision on the registry as it was when the query was invoked.          *)
(***************************************************************************)
QueriesIsolated ==
    /\ [](\A q \in Slots : Done(q)
            => Agrees(queries[q], Decision(queries[q].snapshot, queries[q].args)))
    /\ [][\A q \in Slots :
            (queries[q].status = "idle" /\ queries'[q].status = "pending")
            => queries'[q].snapshot = abilities]_vars
    /\ [][queries' # queries => abilities' = abilities]_vars

QueriesIsolatedWitness ==
    \E q \in Slots : \E r \in Slots :
        /\ q # r
        /\ Done(q) /\ queries[r].status = "pending"
        /\ queries[q].op = "can"
        /\ queries[q].snapshot # abilities
        /\ queries[q].result = Resolved("false")
        /\ Decision(abilities, queries[q].args).value = "true"

====
